---- MODULE Spec2Model ----
(***************************************************************************)
(* Character-level language model notebook                                 *)
(* (labs/06_deep_nlp/Character_Level_Language_Model.ipynb):                *)
(*   - the vocabulary cell (chars, char_indices, indices_char),            *)
(*   - sample_one (temperature rescaling + one multinomial draw),          *)
(*   - generate_text (the autoregressive sampling loop), also with the     *)
(*     generator behind np.random made explicit, and called from two       *)
(*     threads.                                                            *)
(* Recommender notebook: recommend.                                        *)
(* Embeddings notebook                                                     *)
(* (labs/03_neural_recsys/Short_Intro_to_Embeddings_with_Keras.ipynb):     *)
(*   onehot_encode, the dot product with embedding_matrix, and the two     *)
(*   Keras models built on embedding_layer.                                *)
(*                                                                         *)
(* Characters are modelled by their code points (small naturals), Python   *)
(* strings and lists by sequences, dicts by functions on their key set,    *)
(* numpy arrays by functions on 0-based index ranges.                      *)
(***************************************************************************)
EXTENDS Integers, Sequences, FiniteSets, TLC

\* ------------------------------------------------------------------ bounds
\* Number of distinct characters a corpus may draw from (code points 1..NumSymbols).
NumSymbols == 4
\* Longest corpus enumerated for the vocabulary cell.
MaxTextLen == 3
\* Longest seed_string passed to generate_text.
MaxSeedLen == 5
\* Largest `length` argument passed to generate_text.
MaxGenLength == 2
\* Window size the notebook global max_length is set to (40 in the notebook).
WindowSize == 2
\* Number of categories of the vectors sample_one is applied to on its own.
SampleVocSize == 3
\* Largest `length` argument of the calls made with a seeded generator.
MaxSeededLength == 3
\* Longest seed_string of the calls made with a seeded generator.
MaxSeededSeedLen == 2
\* Largest `length` argument of the calls made from two threads.
MaxThreadLength == 2
\* Number of items of the ratings data (item ids 1..NumItems).
NumItems == 3
\* Largest top_n argument passed to recommend.
MaxTopN == 2
\* vocab_size of the embeddings notebook (10 in the notebook).
VocabSize == 3
\* embedding_size of the embeddings notebook (4 in the notebook).
EmbeddingSize == 2
\* make_sequences: longest text, largest max_length, largest step
MaxSequenceTextLen == 5
MaxSequenceLength == 2
MaxStep == 2

VARIABLES
    \* notebook globals
    text, chars, char_indices, indices_char, voc_size, max_length, cell,
    \* generate_text: arguments, locals, control
    pc, seed_string, length, temperature, generated, prefix, i, x, preds,
    next_index,
    \* outcome of the call in progress / last call
    result, error,
    \* observation of the call: model invocations, sampler invocations, and the
    \* indices sample_one returned, in the order it returned them
    modelCalls, sampleCalls, sampled,
    \* the model argument of generate_text, when it is a fixed function
    model,
    \* the state of the global generator behind np.random: the seed it was
    \* last given and the number of draws made since
    rng_seed, rng_pos,
    \* two calls in a row: how many were made, what the first returned
    run, first,
    \* generate_text running in two threads: the frame of each call
    threads,
    \* recommender notebook: globals
    all_ratings, max_item_id, items, rating_model,
    \* recommend: control, arguments, locals, outcome
    rec_pc, user_id, top_n, seen_movies, item_ids, rating_preds, rec_items,
    rec_result, rec_error,
    \* embeddings notebook: globals and the weights of the Embedding layers
    embedding_matrix, label, onehot_i, embedding_vector, layer_weights,
    labels_to_encode, predicted, weights_set,
    \* recommender notebook: the item embeddings and the titles by item id
    item_embeddings, titles,
    \* most_similar: control, arguments, locals, outcome
    ms_pc, item_id, ms_top_n, sims, sorted_indexes, idxs, ms_result, ms_error,
    \* make_sequences: control, argument, loop variable, the two lists
    seq_pc, step, seq_i, sequences, next_chars

globals == <<text, chars, char_indices, indices_char, voc_size, max_length, cell>>
locals == <<pc, seed_string, length, temperature, generated, prefix, i, x, preds,
            next_index, result, error, modelCalls, sampleCalls, sampled>>
rngvars == <<model, rng_seed, rng_pos, run, first, threads>>
recvars == <<all_ratings, max_item_id, items, rating_model, rec_pc, user_id,
             top_n, seen_movies, item_ids, rating_preds, rec_items, rec_result,
             rec_error>>
embvars == <<embedding_matrix, label, onehot_i, embedding_vector, layer_weights,
             labels_to_encode, predicted, weights_set>>
simvars == <<item_embeddings, titles, ms_pc, item_id, ms_top_n, sims,
             sorted_indexes, idxs, ms_result, ms_error>>
seqvars == <<seq_pc, step, seq_i, sequences, next_chars>>
others == <<rngvars, recvars, embvars, simvars, seqvars>>
vars == <<globals, locals, others>>

\* No exception.
None == "None"

\* A name that is not bound (yet) holds a value of the type it is bound to
\* later, so that every variable keeps one type: the empty string, the
\* empty array or dict, and -1 for a number.  The control position tells
\* whether the name is bound.
NoString == <<>>
NoArray == <<>>
NoInt == 0 - 1

\* --------------------------------------------------------- Python helpers
Symbols == 1..NumSymbols

\* range(n)
Range(n) == 0..(n - 1)

\* s[1:] on a string
DropFirst(s) == IF s = <<>> THEN <<>> ELSE Tail(s)

\* s[-n:] for 0 <= n (the last min(n, len(s)) characters)
LastN(s, n) ==
    IF n >= Len(s) THEN s ELSE SubSeq(s, Len(s) - n + 1, Len(s))

\* All strings over alphabet A of length at most n.
StringsUpTo(A, n) == UNION {[1..k -> A] : k \in 0..n}

\* set(text)
PySet(s) == {s[k] : k \in DOMAIN s}

\* list(a_set): the elements once each, in an order the language does not fix.
PyListOrders(S) ==
    {l \in [1..Cardinality(S) -> S] : PySet(l) = S}

\* Insert c into an ascending list, after the elements not greater than it.
RECURSIVE InsertSorted(_, _)
InsertSorted(c, l) ==
    IF l = <<>> THEN <<c>>
    ELSE IF c < Head(l) THEN <<c>> \o l
    ELSE <<Head(l)>> \o InsertSorted(c, Tail(l))

\* sorted(a_list): ascending, duplicates kept.
RECURSIVE PySorted(_)
PySorted(l) ==
    IF l = <<>> THEN <<>> ELSE InsertSorted(Head(l), PySorted(Tail(l)))

\* dict(pairs): later pairs override earlier ones with the same key.
RECURSIVE PyDict(_)
PyDict(pairs) ==
    IF pairs = <<>> THEN <<>>
    ELSE LET n == Len(pairs)
             d == PyDict(SubSeq(pairs, 1, n - 1))
             k == pairs[n][1]
             v == pairs[n][2]
         IN  [key \in (DOMAIN d) \cup {k} |-> IF key = k THEN v ELSE d[key]]

\* ------------------------------------------------------- vocabulary cell
\* Slip: the set() is left out, so repeated characters stay in the list.
BuildCharsNoSet(order) == PySorted(text)

\* Slip: the sorted() is left out, so the set's iteration order is kept.
BuildCharsUnsorted(order) == order

\* chars = sorted(list(set(text))), for one iteration order `order` of the set.
BuildChars(order) == PySorted(order)

\* dict((c, i) for i, c in enumerate(chars))
BuildCharIndices(cs) == PyDict([k \in 1..Len(cs) |-> <<cs[k], k - 1>>])

\* Slip: the indices are counted from 1, as by enumerate(chars, 1).
BuildIndicesCharFromOne(cs) == PyDict([k \in 1..Len(cs) |-> <<k, cs[k]>>])

\* dict((i, c) for i, c in enumerate(chars))
BuildIndicesChar(cs) == PyDict([k \in 1..Len(cs) |-> <<k - 1, cs[k]>>])

\* Number of occurrences of c in s.
Count(s, c) == Cardinality({k \in DOMAIN s : s[k] = c})

\* Position of the first occurrence of c in s.
FirstIndex(s, c) == CHOOSE k \in DOMAIN s : s[k] = c /\ \A j \in 1..(k - 1) : s[j] # c

\* c comes before d in Counter(text).most_common(): higher count first, ties in
\* order of first occurrence.
MoreCommon(s, c, d) ==
    \/ Count(s, c) > Count(s, d)
    \/ Count(s, c) = Count(s, d) /\ FirstIndex(s, c) < FirstIndex(s, d)

\* chars, counts = zip(*Counter(text).most_common()): the chars component.
MostCommonChars(s) ==
    CHOOSE l \in PyListOrders(PySet(s)) :
        \A a, b \in DOMAIN l : a < b => MoreCommon(s, l[a], l[b])

\* --------------------------------------------------- float64 arithmetic
\* Three encodings of the float64 values sample_one computes with:
\*   linear values   [k |-> "pos", n, e]  = n * 2^e (n > 0),  [k |-> "neg", n, e]
\*                   = -n * 2^e,  and the specials "zero", "pinf", "nan";
\*   log values      [k |-> "fin", v] = v * ln(2),  and "ninf", "pinf", "nan";
\*   quotients       [k |-> "rat", num, den] = num / den,  and "zero", "nan".
\* Temperatures are counted in units of 1 / TemperatureUnit: t stands for
\* the float t / TemperatureUnit.
TemperatureUnit == 2048
\* The temperatures 0.5 and 1.0.
TemperatureHalf == TemperatureUnit \div 2
TemperatureOne == TemperatureUnit

Special(kind) == [k |-> kind]
Pos(n, e) == [k |-> "pos", n |-> n, e |-> e]
Neg(n, e) == [k |-> "neg", n |-> n, e |-> e]
Fin(v) == [k |-> "fin", v |-> v]
Rat(num, den) == [k |-> "rat", num |-> num, den |-> den]

RECURSIVE Pow2(_)
Pow2(n) == IF n <= 0 THEN 1 ELSE 2 * Pow2(n - 1)

\* np.log on one entry: log of a negative is nan, log(0) is -inf (a warning,
\* not an exception).  Entries are powers of two, so n = 1.
NpLog(p) ==
    CASE p.k = "pos" -> Fin(p.e)
      [] p.k = "zero" -> Special("ninf")
      [] p.k = "pinf" -> Special("pinf")
      [] OTHER -> Special("nan")

\* One entry of (log values) / temperature, temperature t in its unit.  Division
\* by zero follows IEEE 754: nonzero / 0 is an infinity, 0 / 0 is nan.
NpDivide(l, t) ==
    CASE l.k = "nan" -> Special("nan")
      [] l.k = "ninf" -> IF t >= 0 THEN Special("ninf") ELSE Special("pinf")
      [] l.k = "pinf" -> IF t >= 0 THEN Special("pinf") ELSE Special("ninf")
      [] OTHER ->
            IF t = 0
            THEN IF l.v < 0 THEN Special("ninf")
                 ELSE IF l.v > 0 THEN Special("pinf")
                 ELSE Special("nan")
            ELSE IF t > 0 THEN Fin((TemperatureUnit * l.v) \div t)
            ELSE Fin((0 - TemperatureUnit * l.v) \div (0 - t))

\* Exponents of the smallest and of the largest power of two a float64
\* holds: 2^-1074 is the smallest subnormal, 2^1023 the largest power.
Float64MinExp == 0 - 1074
Float64MaxExp == 1023

\* np.exp on one float64 entry: a result below the smallest subnormal
\* underflows to 0.0, one above the largest finite value overflows to inf.
NpExp(l) ==
    CASE l.k = "fin" ->
            IF l.v < Float64MinExp THEN Special("zero")
            ELSE IF l.v > Float64MaxExp THEN Special("pinf")
            ELSE Pos(1, l.v)
      [] l.k = "ninf" -> Special("zero")
      [] l.k = "pinf" -> Special("pinf")
      [] OTHER -> Special("nan")

\* Smallest exponent among the finite positive entries of a.
MinExp(a) ==
    LET E == {a[j].e : j \in {j \in DOMAIN a : a[j].k = "pos"}}
    IN  CHOOSE m \in E : \A o \in E : m <= o

RECURSIVE SumMantissa(_, _, _)
SumMantissa(a, m, n) ==
    IF n = 0 THEN 0
    ELSE SumMantissa(a, m, n - 1)
         + (IF a[n - 1].k = "pos" THEN a[n - 1].n * Pow2(a[n - 1].e - m) ELSE 0)

\* np.sum of an array of non-negative linear values.
NpSum(a) ==
    IF \E j \in DOMAIN a : a[j].k = "nan" THEN Special("nan")
    ELSE IF \E j \in DOMAIN a : a[j].k = "pinf" THEN Special("pinf")
    ELSE IF \A j \in DOMAIN a : a[j].k = "zero" THEN Special("zero")
    ELSE Pos(SumMantissa(a, MinExp(a), Cardinality(DOMAIN a)), MinExp(a))

\* One entry of exp_preds / np.sum(exp_preds).
NpQuotient(p, s) ==
    CASE p.k = "nan" \/ s.k = "nan" -> Special("nan")
      [] p.k = "pinf" /\ s.k = "pinf" -> Special("nan")
      [] p.k = "zero" /\ s.k = "zero" -> Special("nan")
      [] p.k = "zero" -> Special("zero")
      [] s.k = "pinf" -> Special("zero")
      [] OTHER -> Rat(p.n * Pow2(p.e - s.e), s.n)

\* ------------------------------------------------------------ sample_one
\* preds = np.log(preds) / temperature
Rescale(p, t) == [j \in DOMAIN p |-> NpDivide(NpLog(p[j]), t)]

\* exp_preds = np.exp(preds); preds = exp_preds / np.sum(exp_preds)
Renormalize(r) ==
    LET exp_preds == [j \in DOMAIN r |-> NpExp(r[j])]
    IN  [j \in DOMAIN r |-> NpQuotient(exp_preds[j], NpSum(exp_preds))]

\* The distribution sample_one draws from.
RescaledPreds(p, t) == Renormalize(Rescale(p, t))

\* np.argmax(np.random.multinomial(1, pvals, size=1)): the categories one
\* trial can select.  With a nan among pvals the draw is not defined by the
\* library's contract: recent versions raise ValueError, older ones return
\* some category.
MultinomialArgmax(pvals) ==
    IF \E j \in DOMAIN pvals : pvals[j].k = "nan"
    THEN {[err |-> "ValueError", index |-> NoInt]}
         \cup {[err |-> None, index |-> j] : j \in DOMAIN pvals}
    ELSE {[err |-> None, index |-> j] :
             j \in {j \in DOMAIN pvals : pvals[j].k = "rat"}}

\* sample_one(preds, temperature): the set of its possible outcomes.
sample_one(p, t) == MultinomialArgmax(RescaledPreds(p, t))

\* ------------------------------------------------- generate_text: inputs
\* The corpus the vocabulary of the generation runs is built from.
GenCorpus == <<2, 1, 2>>

\* Characters a seed_string may hold: those of the corpus and one it lacks.
SeedSymbols == PySet(GenCorpus) \cup {3}

\* seed_string arguments.
Seeds == StringsUpTo(SeedSymbols, MaxSeedLen)

\* temperature arguments of generate_text: 0.0 and 1.0.
GenTemperatures == {0, TemperatureOne}

\* Probability vectors model(x)[0] may return: (1/2, 1/2) and (1, 0).
ModelOutputs ==
    {[j \in Range(2) |-> Pos(1, 0 - 1)],
     [j \in Range(2) |-> IF j = 0 THEN Pos(1, 0) ELSE Special("zero")]}

\* Entries of the vectors sample_one is applied to on its own:
\* -1/2, 0, 1, 1/2, 1/4.
PredEntries ==
    {Neg(1, 0 - 1), Special("zero"), Pos(1, 0), Pos(1, 0 - 1), Pos(1, 0 - 2)}

\* temperature arguments of sample_one: -1.0, -0.5, 0.0, 0.5, 1.0.
SampleTemperatures ==
    {0 - TemperatureOne, 0 - TemperatureHalf, 0, TemperatureHalf, TemperatureOne}

\* ------------------------------------------- generate_text: vectorization
\* np.zeros((1, max_length, voc_size)), first axis dropped.
Zeros(W, V) == [r \in Range(W) |-> [c \in Range(V) |-> 0]]

\* numpy accepts the index r on an axis of size W (IndexError otherwise).
RowInBounds(r, W) == r < W /\ r >= 0 - W

\* Row written by x[0, t + shift, ...]: numpy counts a negative index from
\* the end of the axis.
RowIndex(r, W) == IF r < 0 THEN r + W ELSE r

\* Slip: no shift, so a short prefix fills the first rows.
ShiftNone(W, n) == 0

\* shift = max_length - len(prefix)
Shift(W, n) == W - n

\* for t, char in enumerate(prefix): x[0, t + shift, char_indices[char]] = 1.
\* from iteration t on; the subscript char_indices[char] is evaluated before
\* the store, so an unknown char raises KeyError first.
RECURSIVE VectorizeFrom(_, _, _, _, _, _)
VectorizeFrom(xcur, pfx, t, W, V, ci) ==
    IF t >= Len(pfx) THEN [x |-> xcur, err |-> None]
    ELSE LET char == pfx[t + 1]
             shift == Shift(W, Len(pfx))
             row == RowIndex(t + shift, W)
         IN  IF char \notin DOMAIN ci THEN [x |-> xcur, err |-> "KeyError"]
             ELSE IF ~RowInBounds(t + shift, W) \/ ci[char] \notin Range(V)
                  THEN [x |-> xcur, err |-> "IndexError"]
             ELSE VectorizeFrom(
                      [xcur EXCEPT ![row] = [@ EXCEPT ![ci[char]] = 1]],
                      pfx, t + 1, W, V, ci)

\* The tensor built from prefix at one step of generate_text.
Vectorize(pfx, W, V, ci) == VectorizeFrom(Zeros(W, V), pfx, 0, W, V, ci)

\* ------------------------------------------------- generate_text: the loop
\* Slip: the sampled char is put in front of the string.
NextGeneratedInFront(g, c) == <<c>> \o g

\* generated += next_char
NextGenerated(g, c) == g \o <<c>>

\* Slip: the sampled char is added to a window that keeps its first char.
NextPrefixGrowing(pfx, c) == pfx \o <<c>>

\* Slip: the window is not slid, the sampled char is left out of it.
NextPrefixUnchanged(pfx, c) == pfx

\* prefix = prefix[1:] + next_char
NextPrefix(pfx, c) == DropFirst(pfx) \o <<c>>

\* Slip: range(length + 1).
LoopContinuesOnceMore(k, n) == k <= n

\* for i in range(length): the loop runs its body again while i < length.
LoopContinues(k, n) == k < n

\* What generate_text hands back: return generated
Returned(g) == g

\* The locals of a call that has not bound them yet.
Unbound ==
    /\ generated' = NoString
    /\ prefix' = NoString
    /\ i' = NoInt
    /\ x' = NoArray
    /\ preds' = NoArray
    /\ next_index' = NoInt
    /\ result' = NoString
    /\ error' = None
    /\ modelCalls' = 0
    /\ sampleCalls' = 0
    /\ sampled' = <<>>

\* generate_text(model, seed, length=n, temperature=t) is called.
GenerateTextCall(seed, n, t) ==
    /\ pc = "idle"
    /\ pc' = "init"
    /\ seed_string' = seed
    /\ length' = n
    /\ temperature' = t
    /\ Unbound
    /\ UNCHANGED <<globals, others>>

\* Slip: the function declares max_length global and fits it to the seed.
InitializeFittingWindow ==
    /\ pc = "init"
    /\ generated' = seed_string
    /\ prefix' = seed_string
    /\ i' = 0
    /\ pc' = "for"
    /\ max_length' = Len(seed_string)
    /\ UNCHANGED <<text, chars, char_indices, indices_char, voc_size, cell, others,
                   seed_string, length, temperature, x, preds, next_index,
                   result, error, modelCalls, sampleCalls, sampled>>

\* generated = seed_string; prefix = seed_string; the range iterator is made.
Initialize ==
    /\ pc = "init"
    /\ generated' = seed_string
    /\ prefix' = seed_string
    /\ i' = 0
    /\ pc' = "for"
    /\ UNCHANGED <<globals, others, seed_string, length, temperature, x, preds, next_index,
                   result, error, modelCalls, sampleCalls, sampled>>

\* for i in range(length): one more iteration starts.
ForNext ==
    /\ pc = "for"
    /\ LoopContinues(i, length)
    /\ pc' = "vectorize"
    /\ UNCHANGED <<globals, others, seed_string, length, temperature, generated, prefix, i,
                   x, preds, next_index, result, error, modelCalls, sampleCalls,
                   sampled>>

\* x = np.zeros(...); shift = ...; the enumerate loop.  An exception leaves
\* the function.
VectorizeStep ==
    /\ pc = "vectorize"
    /\ LET v == Vectorize(prefix, max_length, voc_size, char_indices)
       IN  IF v.err = None
           THEN /\ x' = v.x
                /\ pc' = "predict"
                /\ error' = error
           ELSE /\ x' = x
                /\ pc' = "raised"
                /\ error' = v.err
    /\ UNCHANGED <<globals, others, seed_string, length, temperature, generated, prefix, i,
                   preds, next_index, result, modelCalls, sampleCalls, sampled>>

\* preds = model(x)[0]: the model returns a probability vector.
Predict ==
    /\ pc = "predict"
    /\ \E p \in ModelOutputs : preds' = p
    /\ modelCalls' = modelCalls + 1
    /\ pc' = "sample"
    /\ UNCHANGED <<globals, others, seed_string, length, temperature, generated, prefix, i,
                   x, next_index, result, error, sampleCalls, sampled>>

\* Slip: the exception of the model call is caught and the step given up,
\* the loop going on with the next one.
ModelRaisesCaught ==
    /\ pc = "predict"
    /\ modelCalls' = modelCalls + 1
    /\ error' = "ModelError"
    /\ i' = i + 1
    /\ pc' = "for"
    /\ UNCHANGED <<globals, others, seed_string, length, temperature, generated, prefix,
                   x, preds, next_index, result, sampleCalls, sampled>>

\* preds = model(x)[0]: the model call raises.
ModelRaises ==
    /\ pc = "predict"
    /\ modelCalls' = modelCalls + 1
    /\ error' = "ModelError"
    /\ pc' = "raised"
    /\ UNCHANGED <<globals, others, seed_string, length, temperature, generated, prefix, i,
                   x, preds, next_index, result, sampleCalls, sampled>>

\* next_index = sample_one(preds, temperature)
Sample ==
    /\ pc = "sample"
    /\ sampleCalls' = sampleCalls + 1
    /\ \E o \in sample_one(preds, temperature) :
          IF o.err = None
          THEN /\ next_index' = o.index
               /\ sampled' = Append(sampled, o.index)
               /\ pc' = "append"
               /\ error' = error
          ELSE /\ next_index' = next_index
               /\ sampled' = sampled
               /\ pc' = "raised"
               /\ error' = o.err
    /\ UNCHANGED <<globals, others, seed_string, length, temperature, generated, prefix, i,
                   x, preds, result, modelCalls>>

\* next_char = indices_char[next_index]; generated += next_char;
\* prefix = prefix[1:] + next_char; the iterator moves on.
AppendChar ==
    /\ pc = "append"
    /\ IF next_index \in DOMAIN indices_char
       THEN LET next_char == indices_char[next_index]
            IN  /\ generated' = NextGenerated(generated, next_char)
                /\ prefix' = NextPrefix(prefix, next_char)
                /\ i' = i + 1
                /\ pc' = "for"
                /\ error' = error
       ELSE /\ error' = "KeyError"
            /\ pc' = "raised"
            /\ UNCHANGED <<generated, prefix, i>>
    /\ UNCHANGED <<globals, others, seed_string, length, temperature, x, preds, next_index,
                   result, modelCalls, sampleCalls, sampled>>

\* The range is exhausted: return generated
Return ==
    /\ pc = "for"
    /\ ~LoopContinues(i, length)
    /\ result' = Returned(generated)
    /\ pc' = "done"
    /\ UNCHANGED <<globals, others, seed_string, length, temperature, generated, prefix, i,
                   x, preds, next_index, error, modelCalls, sampleCalls, sampled>>

\* The caller has received the returned string or the exception; the frame
\* of the call is gone.
CallEnds ==
    /\ pc \in {"done", "raised"}
    /\ pc' = "idle"
    /\ seed_string' = NoString
    /\ length' = NoInt
    /\ temperature' = NoInt
    /\ Unbound
    /\ UNCHANGED <<globals, others>>

\* The notebook after its cells up to the definition of generate_text have
\* run on GenCorpus, with no call in progress.
GlobalsReadyFor(corpus) ==
    /\ text = corpus
    /\ chars = MostCommonChars(corpus)
    /\ \E order \in PyListOrders(PySet(corpus)) :
          /\ char_indices = BuildCharIndices(BuildChars(order))
          /\ indices_char = BuildIndicesChar(BuildChars(order))
    /\ voc_size = Len(MostCommonChars(corpus))
    /\ max_length = WindowSize
    /\ cell = "ready"

GlobalsReady == GlobalsReadyFor(GenCorpus)

NoCall ==
    /\ seed_string = NoString
    /\ length = NoInt
    /\ temperature = NoInt
    /\ generated = NoString
    /\ prefix = NoString
    /\ i = NoInt
    /\ x = NoArray
    /\ preds = NoArray
    /\ next_index = NoInt
    /\ result = NoString
    /\ error = None
    /\ modelCalls = 0
    /\ sampleCalls = 0
    /\ sampled = <<>>

\* The two threads that may call generate_text side by side.
Threads == {1, 2}

\* The frame of a thread that is not in a call.
IdleThread ==
    [pc |-> "idle", seed_string |-> NoString, length |-> NoInt,
     temperature |-> NoInt, generated |-> NoString, prefix |-> NoString,
     i |-> NoInt, preds |-> NoArray, result |-> NoString, error |-> None,
     start |-> NoInt]

\* The model is not a fixed function, the generator was never seeded, and
\* no thread is in a call.
NoSeededRun ==
    /\ model = NoInt
    /\ rng_seed = NoInt
    /\ rng_pos = 0
    /\ run = 0
    /\ first = NoString
    /\ threads = [w \in Threads |-> IdleThread]

\* The recommender notebook has not run.
NoRecommender ==
    /\ all_ratings = {}
    /\ max_item_id = NoInt
    /\ items = <<>>
    /\ rating_model = NoArray
    /\ rec_pc = "idle"
    /\ user_id = NoInt
    /\ top_n = NoInt
    /\ seen_movies = {}
    /\ item_ids = <<>>
    /\ rating_preds = NoArray
    /\ rec_items = <<>>
    /\ rec_result = <<>>
    /\ rec_error = None

\* The embeddings notebook has not run.
NoEmbeddings ==
    /\ embedding_matrix = NoArray
    /\ label = NoInt
    /\ onehot_i = NoArray
    /\ embedding_vector = NoArray
    /\ layer_weights = NoArray
    /\ labels_to_encode = NoArray
    /\ predicted = NoArray
    /\ weights_set = NoArray

\* most_similar has not been called, the embeddings are not retrieved.
NoSimilarity ==
    /\ item_embeddings = NoArray
    /\ titles = NoArray
    /\ ms_pc = "idle"
    /\ item_id = NoInt
    /\ ms_top_n = NoInt
    /\ sims = NoArray
    /\ sorted_indexes = <<>>
    /\ idxs = <<>>
    /\ ms_result = <<>>
    /\ ms_error = None

\* make_sequences has not been called.
NoSequences ==
    /\ seq_pc = "idle"
    /\ step = NoInt
    /\ seq_i = NoInt
    /\ sequences = <<>>
    /\ next_chars = <<>>

OthersIdle ==
    NoSeededRun /\ NoRecommender /\ NoEmbeddings /\ NoSimilarity /\ NoSequences

Init ==
    /\ GlobalsReady
    /\ pc = "idle"
    /\ NoCall
    /\ OthersIdle

Step ==
    \/ Initialize
    \/ ForNext
    \/ VectorizeStep
    \/ Predict
    \/ ModelRaises
    \/ Sample
    \/ AppendChar
    \/ Return

Next ==
    \/ /\ pc = "idle"
       /\ \E seed \in Seeds, n \in 0..MaxGenLength, t \in GenTemperatures :
             GenerateTextCall(seed, n, t)
    \/ Step
    \/ CallEnds

Spec == Init /\ [][Next]_vars

\* Every blocking call of the loop completes, so a call in progress keeps
\* taking steps; nothing obliges the caller to call again.
FairSpec == Spec /\ WF_vars(Step)

\* --------------------------------------------- the vocabulary cells alone
\* chars = sorted(list(set(text))); char_indices = ...; indices_char = ...
BuildVocabulary ==
    /\ cell = "loaded"
    /\ \E order \in PyListOrders(PySet(text)) :
          /\ chars' = BuildChars(order)
          /\ char_indices' = BuildCharIndices(BuildChars(order))
          /\ indices_char' = BuildIndicesChar(BuildChars(order))
    /\ cell' = "vocabulary"
    /\ UNCHANGED <<others, text, voc_size, max_length, locals>>

\* counter = Counter(text); chars, counts = zip(*counter.most_common()):
\* chars is bound again, the two dicts are not.  On an empty text the
\* unpacking raises and binds nothing.
CountChars ==
    /\ cell = "vocabulary"
    /\ chars' = IF text = <<>> THEN chars ELSE MostCommonChars(text)
    /\ cell' = "counted"
    /\ UNCHANGED <<others, text, char_indices, indices_char, voc_size, max_length, locals>>

\* voc_size = len(chars)
SetVocSize ==
    /\ cell = "counted"
    /\ voc_size' = Len(chars)
    /\ cell' = "ready"
    /\ UNCHANGED <<others, text, chars, char_indices, indices_char, max_length, locals>>

\* The notebook with a corpus loaded and no vocabulary built yet.
InitVocab ==
    /\ text \in StringsUpTo(Symbols, MaxTextLen)
    /\ chars = NoString
    /\ char_indices = NoArray
    /\ indices_char = NoArray
    /\ voc_size = NoInt
    /\ max_length = WindowSize
    /\ cell = "loaded"
    /\ pc = "idle"
    /\ NoCall
    /\ OthersIdle

NextVocab ==
    \/ BuildVocabulary
    \/ CountChars
    \/ SetVocSize

SpecVocab == InitVocab /\ [][NextVocab]_vars

\* --------------------------------------------------- sample_one on its own
\* next_index = sample_one(preds, temperature), called directly.
SampleOneCall ==
    /\ pc = "sample_one"
    /\ sampleCalls' = sampleCalls + 1
    /\ \E o \in sample_one(preds, temperature) :
          /\ next_index' = o.index
          /\ error' = o.err
          /\ pc' = IF o.err = None THEN "returned" ELSE "raised"
    /\ UNCHANGED <<globals, others, seed_string, length, temperature, generated, prefix, i,
                   x, preds, result, modelCalls, sampled>>

InitSample ==
    /\ GlobalsReady
    /\ pc = "sample_one"
    /\ preds \in [Range(SampleVocSize) -> PredEntries]
    /\ temperature \in SampleTemperatures
    /\ seed_string = NoString
    /\ length = NoInt
    /\ generated = NoString
    /\ prefix = NoString
    /\ i = NoInt
    /\ x = NoArray
    /\ next_index = NoInt
    /\ result = NoString
    /\ error = None
    /\ modelCalls = 0
    /\ sampleCalls = 0
    /\ sampled = <<>>
    /\ OthersIdle

NextSample == SampleOneCall

SpecSample == InitSample /\ [][NextSample]_vars

\* ------------------------------------- sample_one at positive temperatures
\* temperature arguments above zero: 1/2048, 0.5 and 1.0.
PositiveTemperatures == {1, TemperatureHalf, TemperatureOne}

InitPositive ==
    /\ GlobalsReady
    /\ pc = "sample_one"
    /\ preds \in [Range(SampleVocSize) -> PredEntries]
    /\ temperature \in PositiveTemperatures
    /\ seed_string = NoString
    /\ length = NoInt
    /\ generated = NoString
    /\ prefix = NoString
    /\ i = NoInt
    /\ x = NoArray
    /\ next_index = NoInt
    /\ result = NoString
    /\ error = None
    /\ modelCalls = 0
    /\ sampleCalls = 0
    /\ sampled = <<>>
    /\ OthersIdle

NextPositive == SampleOneCall

SpecPositive == InitPositive /\ [][NextPositive]_vars

\* ------------------------------------- generate_text on a seeded generator
\* The corpus behind the vocabulary {a, b, c} (code points 1, 2, 3), which
\* sorted() indexes 0, 1, 2.
RngCorpus == <<3, 1, 2>>

\* The models passed to generate_text: fixed functions of the tensor x.
StubModels == {0, 1}

\* Column of the one in row r of the tensor xx, -1 in an all-zero row.
HotColumn(xx, r) ==
    IF \E c \in DOMAIN xx[r] : xx[r][c] = 1
    THEN CHOOSE c \in DOMAIN xx[r] : xx[r][c] = 1
    ELSE NoInt

\* model(x)[0] for the model m.  Model 0 returns one and the same vector
\* whatever x is: 1/2 for the last category and 1/4 for the two others.
\* Model 1 looks at the last row of x: it gives 1/2 to the category after
\* the one of the last character (to category 0 without a last character).
ModelStub(m, xx) ==
    LET V == Cardinality(DOMAIN xx[0])
        last == HotColumn(xx, Cardinality(DOMAIN xx) - 1)
        top == IF m = 0 THEN V - 1 ELSE (last + 1) % V
    IN  [j \in Range(V) |-> IF j = top THEN Pos(1, 0 - 1) ELSE Pos(1, 0 - 2)]

\* The generator behind np.random, for each seed it can be given: the
\* uniform variates it yields one after the other, in quarters.  The library
\* computes them from its state alone; one draw of multinomial is taken to
\* consume one of them.
RngStreams ==
    <<<<3, 3, 3, 3>>, <<0, 0, 0, 0>>, <<1, 1, 1, 1>>, <<0, 3, 1, 2>>,
      <<2, 0, 3, 1>>>>

\* The denominator of the variates of RngStreams.
UniformGrid == 4

\* The seeds np.random.seed may be given.
RngSeeds == Range(Len(RngStreams))

\* The variate the generator seeded with s yields at its draw number pos.
Uniform(s, pos) == RngStreams[s + 1][(pos % Len(RngStreams[s + 1])) + 1]

\* Numerator of one entry of the rescaled distribution.
Numerator(q) == IF q.k = "rat" THEN q.num ELSE 0

\* Numerator of pvals[0] + ... + pvals[j].
RECURSIVE CumulativeNumerator(_, _)
CumulativeNumerator(pvals, j) ==
    IF j < 0 THEN 0
    ELSE CumulativeNumerator(pvals, j - 1) + Numerator(pvals[j])

\* The common denominator of the entries of the rescaled distribution.
Denominator(pvals) ==
    LET R == {j \in DOMAIN pvals : pvals[j].k = "rat"}
    IN  pvals[CHOOSE j \in R : TRUE].den

\* The category the variate u / UniformGrid selects: the first one whose
\* cumulated probability exceeds it.
InverseCdf(pvals, u) ==
    LET Exceeds(j) ==
            CumulativeNumerator(pvals, j) * UniformGrid > u * Denominator(pvals)
    IN  CHOOSE j \in DOMAIN pvals : Exceeds(j) /\ \A k \in Range(j) : ~Exceeds(k)

\* Slip: the draw is made by a generator of its own that the seed does not
\* govern, so it may select any category of positive probability.
MultinomialDrawUnseeded(pvals, u) == MultinomialArgmax(pvals)

\* np.argmax(np.random.multinomial(1, pvals, size=1)) with the generator
\* yielding the variate u: the outcome is a function of the generator's
\* state (with a nan among pvals, see MultinomialArgmax).
MultinomialDraw(pvals, u) ==
    IF \E j \in DOMAIN pvals : pvals[j].k = "nan"
    THEN MultinomialArgmax(pvals)
    ELSE {[err |-> None, index |-> InverseCdf(pvals, u)]}

\* seed_string arguments of the seeded calls.
SeededSeeds == StringsUpTo(PySet(RngCorpus), MaxSeededSeedLen)

\* temperature arguments of the seeded calls: 0.5 and 1.0.
SeededTemperatures == {TemperatureHalf, TemperatureOne}

\* np.random.seed(rng_seed); generate_text(model, seed, length=n,
\* temperature=t)
SeededCall(seed, n, t) ==
    /\ pc = "idle"
    /\ run = 0
    /\ rng_pos' = 0
    /\ run' = 1
    /\ pc' = "init"
    /\ seed_string' = seed
    /\ length' = n
    /\ temperature' = t
    /\ Unbound
    /\ UNCHANGED <<globals, recvars, embvars, simvars, seqvars, model, rng_seed, first, threads>>

\* preds = model(x)[0] with the fixed model.
PredictStub ==
    /\ pc = "predict"
    /\ preds' = ModelStub(model, x)
    /\ modelCalls' = modelCalls + 1
    /\ pc' = "sample"
    /\ UNCHANGED <<globals, others, seed_string, length, temperature, generated,
                   prefix, i, x, next_index, result, error, sampleCalls, sampled>>

\* next_index = sample_one(preds, temperature): the draw reads the global
\* generator and moves it on.
SampleSeeded ==
    /\ pc = "sample"
    /\ sampleCalls' = sampleCalls + 1
    /\ rng_pos' = rng_pos + 1
    /\ \E o \in MultinomialDraw(RescaledPreds(preds, temperature),
                               Uniform(rng_seed, rng_pos)) :
          IF o.err = None
          THEN /\ next_index' = o.index
               /\ sampled' = Append(sampled, o.index)
               /\ pc' = "append"
               /\ error' = error
          ELSE /\ next_index' = next_index
               /\ sampled' = sampled
               /\ pc' = "raised"
               /\ error' = o.err
    /\ UNCHANGED <<globals, recvars, embvars, simvars, seqvars,
                   model, rng_seed, run, first, threads, seed_string,
                   length, temperature, generated, prefix, i, x, preds, result,
                   modelCalls>>

\* The first call has returned; the caller keeps its result, seeds the
\* generator as before and makes the same call again.
SecondCall ==
    /\ pc = "done"
    /\ run = 1
    /\ first' = result
    /\ rng_pos' = 0
    /\ run' = 2
    /\ pc' = "init"
    /\ Unbound
    /\ UNCHANGED <<globals, recvars, embvars, simvars, seqvars,
                   model, rng_seed, threads, seed_string, length,
                   temperature>>

InitSeeded ==
    /\ GlobalsReadyFor(RngCorpus)
    /\ pc = "idle"
    /\ NoCall
    /\ model \in StubModels
    /\ rng_seed \in RngSeeds
    /\ rng_pos = 0
    /\ run = 0
    /\ first = NoString
    /\ threads = [w \in Threads |-> IdleThread]
    /\ NoRecommender
    /\ NoEmbeddings
    /\ NoSimilarity
    /\ NoSequences

StepSeeded ==
    \/ Initialize
    \/ ForNext
    \/ VectorizeStep
    \/ PredictStub
    \/ SampleSeeded
    \/ AppendChar
    \/ Return

NextSeeded ==
    \/ \E seed \in SeededSeeds, n \in 0..MaxSeededLength,
          t \in SeededTemperatures : SeededCall(seed, n, t)
    \/ StepSeeded
    \/ SecondCall

SpecSeeded == InitSeeded /\ [][NextSeeded]_vars

\* ------------------------------------------ generate_text in two threads
\* seed_string arguments of the calls made from the threads.
ThreadSeeds == StringsUpTo(PySet(RngCorpus), 1)

\* temperature argument of the calls made from the threads: 1.0.
ThreadTemperatures == {TemperatureOne}

\* Thread w calls generate_text(model, seed, length=n, temperature=t):
\* generated = seed_string; prefix = seed_string.  start notes where the
\* global generator stands at the call.
ThreadCall(w, seed, n, t) ==
    /\ threads[w].pc = "idle"
    /\ threads' = [threads EXCEPT ![w] =
                      [pc |-> "for", seed_string |-> seed, length |-> n,
                       temperature |-> t, generated |-> seed, prefix |-> seed,
                       i |-> 0, preds |-> NoArray, result |-> NoString,
                       error |-> None, start |-> rng_pos]]
    /\ UNCHANGED <<globals, recvars, embvars, simvars, seqvars,
                   locals, model, rng_seed, rng_pos, run, first>>

\* Thread w starts one more iteration: it builds x and calls the model.
\* Nothing here is shared with the other thread.
ThreadPredict(w) ==
    /\ threads[w].pc = "for"
    /\ LoopContinues(threads[w].i, threads[w].length)
    /\ LET v == Vectorize(threads[w].prefix, max_length, voc_size, char_indices)
       IN  threads' = [threads EXCEPT ![w] =
               IF v.err = None
               THEN [@ EXCEPT !.preds = ModelStub(model, v.x), !.pc = "sample"]
               ELSE [@ EXCEPT !.error = v.err, !.pc = "raised"]]
    /\ UNCHANGED <<globals, recvars, embvars, simvars, seqvars,
                   locals, model, rng_seed, rng_pos, run, first>>

\* Thread w calls sample_one: the draw reads the generator of the process
\* and moves it on (one draw is atomic: the generator takes its lock); the
\* thread then appends the character to its strings.
ThreadSample(w) ==
    /\ threads[w].pc = "sample"
    /\ rng_pos' = rng_pos + 1
    /\ \E o \in MultinomialDraw(
                   RescaledPreds(threads[w].preds, threads[w].temperature),
                   Uniform(rng_seed, rng_pos)) :
          threads' = [threads EXCEPT ![w] =
              IF o.err # None
              THEN [@ EXCEPT !.error = o.err, !.pc = "raised"]
              ELSE IF o.index \notin DOMAIN indices_char
              THEN [@ EXCEPT !.error = "KeyError", !.pc = "raised"]
              ELSE [@ EXCEPT
                      !.generated = NextGenerated(@, indices_char[o.index]),
                      !.prefix = NextPrefix(@, indices_char[o.index]),
                      !.i = @ + 1,
                      !.pc = "for"]]
    /\ UNCHANGED <<globals, recvars, embvars, simvars, seqvars,
                   locals, model, rng_seed, run, first>>

\* The range of thread w is exhausted: return generated
ThreadReturn(w) ==
    /\ threads[w].pc = "for"
    /\ ~LoopContinues(threads[w].i, threads[w].length)
    /\ threads' = [threads EXCEPT ![w] =
                      [@ EXCEPT !.result = Returned(threads[w].generated),
                                 !.pc = "done"]]
    /\ UNCHANGED <<globals, recvars, embvars, simvars, seqvars,
                   locals, model, rng_seed, rng_pos, run, first>>

\* The process with its notebook globals, a fixed model, the global
\* generator just seeded, and both threads about to call.
InitThreads ==
    /\ GlobalsReadyFor(RngCorpus)
    /\ pc = "idle"
    /\ NoCall
    /\ model \in StubModels
    /\ rng_seed \in RngSeeds
    /\ rng_pos = 0
    /\ run = 0
    /\ first = NoString
    /\ threads = [w \in Threads |-> IdleThread]
    /\ NoRecommender
    /\ NoEmbeddings
    /\ NoSimilarity
    /\ NoSequences

NextThreads ==
    \E w \in Threads :
        \/ \E seed \in ThreadSeeds, n \in 0..MaxThreadLength,
              t \in ThreadTemperatures : ThreadCall(w, seed, n, t)
        \/ ThreadPredict(w)
        \/ ThreadSample(w)
        \/ ThreadReturn(w)

SpecThreads == InitThreads /\ [][NextThreads]_vars

\* What a call returns from iteration k on when no other call draws from
\* the generator meanwhile, the generator standing at draw number pos.
RECURSIVE AloneFrom(_, _, _, _, _, _)
AloneFrom(gen, pfx, k, n, t, pos) ==
    IF ~LoopContinues(k, n) THEN Returned(gen)
    ELSE LET v == Vectorize(pfx, max_length, voc_size, char_indices)
             pvals == RescaledPreds(ModelStub(model, v.x), t)
             o == CHOOSE o \in MultinomialDraw(pvals, Uniform(rng_seed, pos)) : TRUE
             c == indices_char[o.index]
         IN  AloneFrom(NextGenerated(gen, c), NextPrefix(pfx, c), k + 1, n, t,
                       pos + 1)

\* ------------------------------------------ recommender notebook: recommend
\* user_id values of the ratings data.
Users == {1, 2}

\* item_id values of the ratings data.
Items == 1..NumItems

\* Ratings the trained model may predict.
RatingLevels == {1, 2, 3}

\* The (user_id, item_id) pairs of all_ratings, for data in which, as in
\* MovieLens, every item has been rated by some user.
RatingsData ==
    {r \in SUBSET (Users \X Items) : \A k \in Items : \E u \in Users : <<u, k>> \in r}

\* Greatest element of a non-empty set of numbers.
SetMax(S) == CHOOSE m \in S : \A o \in S : o <= m

\* The elements of a set of numbers in ascending order.
Ascending(S) ==
    CHOOSE l \in PyListOrders(S) : \A a, b \in DOMAIN l : a < b => l[a] < l[b]

\* The title of an item.
Title(k) == <<"title", k>>

\* items = pd.merge(popularity, items): one row per rated item, in the
\* order of item_id, under the default index 0, 1, 2, ...
ItemsTable(r) ==
    LET rated == Ascending({p[2] : p \in r})
    IN  [k \in DOMAIN rated |-> [item_id |-> rated[k], title |-> Title(rated[k])]]

\* list(range(a, b))
PyRange(a, b) == [k \in 1..(b - a) |-> a + k - 1]

\* list(filter(lambda x: x not in seen, l))
NotSeen(l, seen) == SelectSeq(l, LAMBDA e : e \notin seen)

\* np.argsort(a): the positions of a in an order of ascending value; the
\* default sort is not stable, so equal values come in any order.
Argsorts(a) ==
    {l \in PyListOrders(DOMAIN a) :
        \A j, k \in DOMAIN l : j < k => a[l[j]] <= a[l[k]]}

\* Slip: the [::-1] is left out, the order stays ascending.
NotReversed(l) == l

\* l[::-1]
Reversed(l) == [k \in DOMAIN l |-> l[Len(l) + 1 - k]]

\* l[:n]
FirstN(l, n) == IF n >= Len(l) THEN l ELSE SubSeq(l, 1, n)

\* recommend(user, top_n=n) is called.
RecommendCall(user, n) ==
    /\ rec_pc = "idle"
    /\ user_id' = user
    /\ top_n' = n
    /\ rec_pc' = "called"
    /\ UNCHANGED <<globals, locals, rngvars, embvars, simvars, seqvars, all_ratings, max_item_id,
                   items, rating_model, seen_movies, item_ids, rating_preds,
                   rec_items, rec_result, rec_error>>

\* item_ids = range(1, max_item_id); seen_movies = the items this user
\* rated; item_ids = the ids of the range that are not among them.
FilterSeen ==
    /\ rec_pc = "called"
    /\ seen_movies' = {p[2] : p \in {p \in all_ratings : p[1] = user_id}}
    /\ item_ids' = NotSeen(PyRange(1, max_item_id), seen_movies')
    /\ rec_pc' = "filtered"
    /\ UNCHANGED <<globals, locals, rngvars, embvars, simvars, seqvars, all_ratings, max_item_id,
                   items, rating_model, user_id, top_n, rating_preds, rec_items,
                   rec_result, rec_error>>

\* item_ids = np.array(item_ids); items_meta = scaler.transform(...);
\* rating_preds = model.predict([user_ids, item_ids, items_meta]): one
\* predicted rating per candidate, by position.  The scaler refuses an
\* empty array.
PredictRatings ==
    /\ rec_pc = "filtered"
    /\ IF item_ids = <<>>
       THEN /\ rec_error' = "ValueError"
            /\ rec_pc' = "raised"
            /\ rating_preds' = rating_preds
       ELSE /\ rating_preds' =
                   [q \in Range(Len(item_ids)) |-> rating_model[item_ids[q + 1]]]
            /\ rec_pc' = "predicted"
            /\ rec_error' = rec_error
    /\ UNCHANGED <<globals, locals, rngvars, embvars, simvars, seqvars, all_ratings, max_item_id,
                   items, rating_model, user_id, top_n, seen_movies, item_ids,
                   rec_items, rec_result>>

\* item_ids = np.argsort(rating_preds[:, 0])[::-1].tolist();
\* rec_items = item_ids[:top_n];
\* return [(items["title"][movie], rating_preds[movie][0]) for movie in
\* rec_items]: item_ids now holds positions in the array of candidates, and
\* items["title"][movie] is the title in the row of `items` labelled movie.
RecommendReturn ==
    /\ rec_pc = "predicted"
    /\ \E order \in Argsorts(rating_preds) :
          /\ item_ids' = Reversed(order)
          /\ rec_items' = FirstN(item_ids', top_n)
          /\ IF \A k \in DOMAIN rec_items' : rec_items'[k] + 1 \in DOMAIN items
             THEN /\ rec_result' =
                        [k \in DOMAIN rec_items' |->
                            <<items[rec_items'[k] + 1].title,
                              rating_preds[rec_items'[k]]>>]
                  /\ rec_pc' = "returned"
                  /\ rec_error' = rec_error
             ELSE /\ rec_result' = rec_result
                  /\ rec_pc' = "raised"
                  /\ rec_error' = "KeyError"
    /\ UNCHANGED <<globals, locals, rngvars, embvars, simvars, seqvars, all_ratings, max_item_id,
                   items, rating_model, user_id, top_n, seen_movies, rating_preds>>

\* The recommender notebook once the data is loaded and the model trained.
InitRecommend ==
    /\ GlobalsReady
    /\ pc = "idle"
    /\ NoCall
    /\ NoSeededRun
    /\ NoEmbeddings
    /\ NoSimilarity
    /\ NoSequences
    /\ all_ratings \in RatingsData
    /\ max_item_id = SetMax({p[2] : p \in all_ratings})
    /\ items = ItemsTable(all_ratings)
    /\ rating_model \in [Items -> RatingLevels]
    /\ rec_pc = "idle"
    /\ user_id = NoInt
    /\ top_n = NoInt
    /\ seen_movies = {}
    /\ item_ids = <<>>
    /\ rating_preds = NoArray
    /\ rec_items = <<>>
    /\ rec_result = <<>>
    /\ rec_error = None

NextRecommend ==
    \/ \E user \in Users, n \in 1..MaxTopN : RecommendCall(user, n)
    \/ FilterSeen
    \/ PredictRatings
    \/ RecommendReturn

SpecRecommend == InitRecommend /\ [][NextRecommend]_vars

\* --------------------------------------------------- embeddings notebook
\* embedding_matrix = np.arange(embedding_size * vocab_size).reshape(
\* vocab_size, embedding_size)
ArangeMatrix(V, E) == [r \in Range(V) |-> [c \in Range(E) |-> r * E + c]]

\* np.ones(shape=(vocab_size, embedding_size))
OnesMatrix(V, E) == [r \in Range(V) |-> [c \in Range(E) |-> 1]]

\* The weight matrices a caller passes to set_weights: the one of all ones
\* the notebook passes, the pre-trained one doubled, and the pre-trained
\* one with its rows in reverse order.
WeightMatrices ==
    {OnesMatrix(VocabSize, EmbeddingSize),
     [r \in Range(VocabSize) |->
         [c \in Range(EmbeddingSize) |->
             2 * ArangeMatrix(VocabSize, EmbeddingSize)[r][c]]],
     [r \in Range(VocabSize) |->
         ArangeMatrix(VocabSize, EmbeddingSize)[VocabSize - 1 - r]]}

\* Slip: the ones are put on the diagonal above the main one, as by
\* np.eye(dim, k=1).
NpEyeAbove(dim) ==
    [r \in Range(dim) |-> [c \in Range(dim) |-> IF c = r + 1 THEN 1 ELSE 0]]

\* np.eye(dim)
NpEye(dim) ==
    [r \in Range(dim) |-> [c \in Range(dim) |-> IF c = r THEN 1 ELSE 0]]

\* def onehot_encode(dim, label): return np.eye(dim)[label]
\* (numpy counts a negative label from the end of the axis.)
onehot_encode(dim, lbl) == NpEye(dim)[RowIndex(lbl, dim)]

\* v[0] * M[0][c] + ... + v[n - 1] * M[n - 1][c]
RECURSIVE DotColumn(_, _, _, _)
DotColumn(v, M, c, n) ==
    IF n = 0 THEN 0 ELSE DotColumn(v, M, c, n - 1) + v[n - 1] * M[n - 1][c]

\* np.dot(v, M) for a vector v and a matrix M
NpDot(v, M) ==
    [c \in DOMAIN M[0] |-> DotColumn(v, M, c, Cardinality(DOMAIN v))]

\* The labels onehot_encode is applied to: those numpy accepts as an index
\* on an axis of size vocab_size.
OnehotLabels == {l \in (0 - VocabSize)..(VocabSize - 1) : RowInBounds(l, VocabSize)}

\* The two Keras models of the notebook.
Models == {"model", "model2"}

\* Slip: model2 is built on an Embedding layer of its own.
LayerOfOwn(m) == IF m = "model2" THEN "my_embedding_1" ELSE "my_embedding"

\* The Embedding layer a model is built on: both are built on the one
\* instance embedding_layer.
LayerOf(m) == "my_embedding"

\* The Embedding layers in memory.
Layers == {LayerOf(m) : m \in Models}

\* labels_to_encode arrays: batches of one or two labels.
LabelBatches == UNION {[Range(n) -> Range(VocabSize)] : n \in {1, 2}}

\* m.predict(lbls): the Embedding layer looks each label up in its weights;
\* model returns the rows under a sequence axis of length 1, model2
\* flattens that axis away.
ModelPredict(m, lbls) ==
    LET W == layer_weights[LayerOf(m)]
    IN  IF m = "model" THEN [b \in DOMAIN lbls |-> [t \in Range(1) |-> W[lbls[b]]]]
        ELSE [b \in DOMAIN lbls |-> W[lbls[b]]]

\* i = lbl; onehot_i = onehot_encode(vocab_size, i)
OnehotCell(lbl) ==
    /\ label' = lbl
    /\ onehot_i' = onehot_encode(VocabSize, lbl)
    /\ UNCHANGED <<globals, locals, rngvars, recvars, simvars, seqvars, embedding_matrix,
                   embedding_vector, layer_weights, labels_to_encode, predicted,
                   weights_set>>

\* embedding_vector = np.dot(onehot_i, embedding_matrix)
DotCell ==
    /\ onehot_i # NoArray
    /\ embedding_vector' = NpDot(onehot_i, embedding_matrix)
    /\ UNCHANGED <<globals, locals, rngvars, recvars, simvars, seqvars, embedding_matrix, label,
                   onehot_i, layer_weights, labels_to_encode, predicted,
                   weights_set>>

\* m.set_weights([w]): the weights of the layer of m are overwritten; what
\* the models returned before is out of date.
SetWeights(m, w) ==
    /\ layer_weights' = [layer_weights EXCEPT ![LayerOf(m)] = w]
    /\ weights_set' = w
    /\ predicted' = [n \in Models |-> NoArray]
    /\ UNCHANGED <<globals, locals, rngvars, recvars, simvars, seqvars, embedding_matrix, label,
                   onehot_i, embedding_vector, labels_to_encode>>

\* labels_to_encode = np.array(...)
SetLabels(lbls) ==
    /\ labels_to_encode' = lbls
    /\ predicted' = [n \in Models |-> NoArray]
    /\ UNCHANGED <<globals, locals, rngvars, recvars, simvars, seqvars, embedding_matrix, label,
                   onehot_i, embedding_vector, layer_weights, weights_set>>

\* m.predict(labels_to_encode)
PredictCell(m) ==
    /\ labels_to_encode # NoArray
    /\ predicted' = [predicted EXCEPT ![m] = ModelPredict(m, labels_to_encode)]
    /\ UNCHANGED <<globals, locals, rngvars, recvars, simvars, seqvars, embedding_matrix, label,
                   onehot_i, embedding_vector, layer_weights, labels_to_encode,
                   weights_set>>

\* The notebook after embedding_layer, model and model2 are built: the
\* layer holds the weights it was given, weights=[embedding_matrix].
InitEmbeddings ==
    /\ GlobalsReady
    /\ pc = "idle"
    /\ NoCall
    /\ NoSeededRun
    /\ NoRecommender
    /\ NoSimilarity
    /\ NoSequences
    /\ embedding_matrix = ArangeMatrix(VocabSize, EmbeddingSize)
    /\ label = NoInt
    /\ onehot_i = NoArray
    /\ embedding_vector = NoArray
    /\ layer_weights = [l \in Layers |-> ArangeMatrix(VocabSize, EmbeddingSize)]
    /\ labels_to_encode = NoArray
    /\ predicted = [n \in Models |-> NoArray]
    /\ weights_set = ArangeMatrix(VocabSize, EmbeddingSize)

NextEmbeddings ==
    \/ \E lbl \in OnehotLabels : OnehotCell(lbl)
    \/ DotCell
    \/ \E m \in Models, w \in WeightMatrices : SetWeights(m, w)
    \/ \E lbls \in LabelBatches : SetLabels(lbls)
    \/ \E m \in Models : PredictCell(m)

SpecEmbeddings == InitEmbeddings /\ [][NextEmbeddings]_vars

\* ------------------------------------------------------------ most_similar
\* EPSILON = 1e-07, by its inverse.
EpsilonInverse == 10000000

\* Rows the item embedding matrix may hold: unit vectors and the zero
\* vector, whose norms are whole numbers.
EmbeddingRows == {<<1, 0>>, <<0, 1>>, <<0 - 1, 0>>, <<0, 0>>}

\* item_embeddings = weights[1]: one row per id from 0 to max_item_id, the
\* Embedding layer having input_dim = max_item_id + 1.
EmbeddingTables == [0..NumItems -> EmbeddingRows]

\* indexed_items["title"]: the titles, labelled by item_id.
IndexedTitles == [k \in Items |-> Title(k)]

\* top_n arguments of most_similar.
SimilarTopNs == {1, 2, NumItems + 2}

\* a @ b for two vectors.
RECURSIVE DotUpTo(_, _, _)
DotUpTo(a, b, n) ==
    IF n = 0 THEN 0 ELSE DotUpTo(a, b, n - 1) + a[n] * b[n]

MatMul(a, b) == DotUpTo(a, b, Len(a))

\* np.linalg.norm of a vector whose squared norm is a square.
NpLinalgNorm(v) == CHOOSE r \in 0..MatMul(v, v) : r * r = MatMul(v, v)

\* cosine_similarities(item_id, item_embeddings): for every row, the pair
\* [dot, norm] stands for the similarity dot / (norm + EPSILON), dot being
\* the product with the query vector and norm the product of the two norms.
cosine_similarities(query, embeddings) ==
    [r \in DOMAIN embeddings |->
        [dot |-> MatMul(embeddings[r], embeddings[query]),
         norm |-> NpLinalgNorm(embeddings[query]) * NpLinalgNorm(embeddings[r])]]

\* a < b for two similarities.
SimLess(a, b) ==
    a.dot * (b.norm * EpsilonInverse + 1) < b.dot * (a.norm * EpsilonInverse + 1)

\* np.argsort(sims): the rows in an order of ascending similarity; equal
\* similarities come in any order.
ArgsortSims(a) ==
    {l \in PyListOrders(DOMAIN a) :
        \A j, k \in DOMAIN l : j < k => ~SimLess(a[l[k]], a[l[j]])}

\* most_similar(item, item_embeddings, indexed_items["title"], top_n=n) is
\* called.
MostSimilarCall(item, n) ==
    /\ ms_pc = "idle"
    /\ item_id' = item
    /\ ms_top_n' = n
    /\ ms_pc' = "called"
    /\ UNCHANGED <<globals, locals, rngvars, recvars, embvars, seqvars,
                   item_embeddings, titles, sims, sorted_indexes, idxs,
                   ms_result, ms_error>>

\* sims = cosine_similarities(item_id, item_embeddings)
CosineSimilarities ==
    /\ ms_pc = "called"
    /\ sims' = cosine_similarities(item_id, item_embeddings)
    /\ ms_pc' = "scored"
    /\ UNCHANGED <<globals, locals, rngvars, recvars, embvars, seqvars,
                   item_embeddings, titles, item_id, ms_top_n, sorted_indexes,
                   idxs, ms_result, ms_error>>

\* sorted_indexes = np.argsort(sims)[::-1]; idxs = sorted_indexes[0:top_n]
SortIndexes ==
    /\ ms_pc = "scored"
    /\ \E order \in ArgsortSims(sims) :
          /\ sorted_indexes' = Reversed(order)
          /\ idxs' = FirstN(sorted_indexes', ms_top_n)
    /\ ms_pc' = "sorted"
    /\ UNCHANGED <<globals, locals, rngvars, recvars, embvars, seqvars,
                   item_embeddings, titles, item_id, ms_top_n, sims,
                   ms_result, ms_error>>

\* return list(zip(idxs, titles[idxs], sims[idxs])): titles[idxs] looks the
\* row numbers up as labels of the Series, and raises KeyError when one of
\* them is not a label.
ZipTriples ==
    /\ ms_pc = "sorted"
    /\ IF \A k \in DOMAIN idxs : idxs[k] \in DOMAIN titles
       THEN /\ ms_result' =
                  [k \in DOMAIN idxs |->
                      <<idxs[k], titles[idxs[k]], sims[idxs[k]]>>]
            /\ ms_pc' = "returned"
            /\ ms_error' = ms_error
       ELSE /\ ms_result' = ms_result
            /\ ms_pc' = "raised"
            /\ ms_error' = "KeyError"
    /\ UNCHANGED <<globals, locals, rngvars, recvars, embvars, seqvars,
                   item_embeddings, titles, item_id, ms_top_n, sims,
                   sorted_indexes, idxs>>

\* The recommender notebook once the model is trained and its weights are
\* retrieved.
InitSimilar ==
    /\ GlobalsReady
    /\ pc = "idle"
    /\ NoCall
    /\ NoSeededRun
    /\ NoRecommender
    /\ NoEmbeddings
    /\ NoSequences
    /\ item_embeddings \in EmbeddingTables
    /\ titles = IndexedTitles
    /\ ms_pc = "idle"
    /\ item_id = NoInt
    /\ ms_top_n = NoInt
    /\ sims = NoArray
    /\ sorted_indexes = <<>>
    /\ idxs = <<>>
    /\ ms_result = <<>>
    /\ ms_error = None

NextSimilar ==
    \/ \E item \in Items, n \in SimilarTopNs : MostSimilarCall(item, n)
    \/ CosineSimilarities
    \/ SortIndexes
    \/ ZipTriples

SpecSimilar == InitSimilar /\ [][NextSimilar]_vars

\* ---------------------------------------------------------- make_sequences
\* Characters of the texts cut into sequences.
SequenceSymbols == {1, 2}

\* text arguments of make_sequences.
SequenceTexts == StringsUpTo(SequenceSymbols, MaxSequenceTextLen)

\* s[a: b] on a string, for 0 <= a <= b: the slice stops at the end of s.
PySlice(s, a, b) == SubSeq(s, a + 1, IF b <= Len(s) THEN b ELSE Len(s))

\* Slip: the range stops one position later.
InRangeInclusive(k, stop) == k <= stop

\* for i in range(0, stop, step), step > 0: the body runs while i < stop.
InRange(k, stop) == k < stop

\* make_sequences(text, step=st) is called: sequences = []; next_chars = [];
\* the range iterator is made.
MakeSequencesCall(st) ==
    /\ seq_pc = "idle"
    /\ step' = st
    /\ seq_i' = 0
    /\ sequences' = <<>>
    /\ next_chars' = <<>>
    /\ seq_pc' = "for"
    /\ UNCHANGED <<globals, locals, rngvars, recvars, embvars, simvars>>

\* sequences.append(text[i: i + max_length]);
\* next_chars.append(text[i + max_length]): an index past the end of text
\* raises IndexError.
SequencesLoop ==
    /\ seq_pc = "for"
    /\ InRange(seq_i, Len(text) - max_length)
    /\ IF seq_i + max_length < Len(text)
       THEN /\ sequences' =
                  Append(sequences, PySlice(text, seq_i, seq_i + max_length))
            /\ next_chars' = Append(next_chars, text[seq_i + max_length + 1])
            /\ seq_i' = seq_i + step
            /\ seq_pc' = "for"
       ELSE /\ sequences' =
                  Append(sequences, PySlice(text, seq_i, seq_i + max_length))
            /\ seq_pc' = "raised"
            /\ UNCHANGED <<next_chars, seq_i>>
    /\ UNCHANGED <<globals, locals, rngvars, recvars, embvars, simvars, step>>

\* The range is exhausted: return sequences, next_chars
SequencesReturn ==
    /\ seq_pc = "for"
    /\ ~InRange(seq_i, Len(text) - max_length)
    /\ seq_pc' = "returned"
    /\ UNCHANGED <<globals, locals, rngvars, recvars, embvars, simvars, step,
                   seq_i, sequences, next_chars>>

\* The notebook once the text is loaded and its vocabulary is built.
InitSequences ==
    /\ text \in SequenceTexts
    /\ chars = MostCommonChars(text)
    /\ \E order \in PyListOrders(PySet(text)) :
          /\ char_indices = BuildCharIndices(BuildChars(order))
          /\ indices_char = BuildIndicesChar(BuildChars(order))
    /\ voc_size = Len(chars)
    /\ max_length \in 1..MaxSequenceLength
    /\ cell = "ready"
    /\ pc = "idle"
    /\ NoCall
    /\ NoSeededRun
    /\ NoRecommender
    /\ NoEmbeddings
    /\ NoSimilarity
    /\ NoSequences

NextSequences ==
    \/ \E st \in 1..MaxStep : MakeSequencesCall(st)
    \/ SequencesLoop
    \/ SequencesReturn

SpecSequences == InitSequences /\ [][NextSequences]_vars

\* ================================================================ claims
Min(a, b) == IF a <= b THEN a ELSE b

\* C1 (as stated, on the seeds it names: the empty seed and the seeds of at
\* most max_length symbols): at the start of every step of generate_text,
\* once generated holds at least max_length symbols, prefix has exactly
\* max_length symbols.
C1_PrefixHasWindowLength ==
    (/\ pc = "vectorize"
     /\ Len(seed_string) <= max_length
     /\ Len(generated) >= max_length)
        => Len(prefix) = max_length

\* C2 (as stated, on seeds of at most max_length symbols): the window that
\* was vectorized and is fed to the model is the last
\* min(max_length, len(generated)) symbols of generated.
C2_WindowIsLastSymbols ==
    (pc = "predict" /\ Len(seed_string) <= max_length)
        => prefix = LastN(generated, Min(max_length, Len(generated)))

\* C3: a call that completes returns len(seed) + length symbols, the seed
\* unchanged first, then the symbols of the sampled indices in the order
\* they were sampled.
C3_ReturnsSeedThenSamples ==
    pc = "done" =>
        /\ Len(result) = Len(seed_string) + length
        /\ Len(sampled) = length
        /\ \A k \in 1..Len(seed_string) : result[k] = seed_string[k]
        /\ \A k \in 1..length :
              result[Len(seed_string) + k] = indices_char[sampled[k]]

C3_Witness ==
    /\ pc = "done"
    /\ length >= 2
    /\ Len(seed_string) >= 1
    /\ sampled[1] # sampled[2]

\* Row r of tensor t is all zeros.
ZeroRow(t, r) == \A c \in DOMAIN t[r] : t[r][c] = 0

\* Row r of tensor t holds a single 1, at column c.
OneHotRow(t, r, c) == \A d \in DOMAIN t[r] : t[r][d] = (IF d = c THEN 1 ELSE 0)

\* C4: for a window of k <= max_length symbols the tensor handed to the
\* model has shape (max_length, voc_size); its last k rows are the one-hot
\* rows of the window's symbols in window order, its first max_length - k
\* rows are all zeros.
C4_TensorRightAligned ==
    (pc = "predict" /\ Len(prefix) <= max_length) =>
        LET k == Len(prefix)
        IN  /\ DOMAIN x = Range(max_length)
            /\ \A r \in DOMAIN x : DOMAIN x[r] = Range(voc_size)
            /\ \A r \in Range(max_length - k) : ZeroRow(x, r)
            /\ \A t \in Range(k) :
                  OneHotRow(x, max_length - k + t, char_indices[prefix[t + 1]])

C4_Witness ==
    /\ pc = "predict"
    /\ Len(prefix) >= 1
    /\ Len(prefix) < max_length

\* C5 (as stated): a window longer than max_length makes the vectorization
\* fail: no tensor is built from it and the model is not invoked on it.
C5_TooLongWindowFails ==
    pc \in {"predict", "sample", "append"} => Len(prefix) <= max_length

\* sample_one has finished: it returned an index or raised.
SampleOneOver == pc \in {"returned", "raised"}

\* C6 (as stated, on the vectors of its example: no negative entry, an
\* entry that is zero and one that is not, temperature 1.0): sample_one
\* fails, and returns no index, when an entry of the probability vector is
\* <= 0.
C6_NonPositiveEntryFails ==
    (/\ SampleOneOver
     /\ temperature = TemperatureOne
     /\ \A j \in DOMAIN preds : preds[j].k \in {"zero", "pos"}
     /\ \E j \in DOMAIN preds : preds[j].k = "zero"
     /\ \E j \in DOMAIN preds : preds[j].k = "pos")
        => (pc = "raised" /\ next_index = NoInt)

\* C7 (as stated, on negative temperatures and vectors of positive
\* entries): sample_one fails, and returns no index, when temperature <= 0.
C7_NonPositiveTemperatureFails ==
    (/\ SampleOneOver
     /\ temperature < 0
     /\ \A j \in DOMAIN preds : preds[j].k = "pos")
        => (pc = "raised" /\ next_index = NoInt)

\* The vocabulary cell has run.
VocabularyBuilt == cell # "loaded"

\* C8: indices_char[char_indices[s]] = s for every symbol s of the corpus,
\* and char_indices[indices_char[n]] = n for every index n below the number
\* of distinct symbols.
C8_RoundTrip ==
    VocabularyBuilt =>
        /\ \A s \in PySet(text) :
              /\ s \in DOMAIN char_indices
              /\ char_indices[s] \in DOMAIN indices_char
              /\ indices_char[char_indices[s]] = s
        /\ \A n \in Range(Cardinality(PySet(text))) :
              /\ n \in DOMAIN indices_char
              /\ indices_char[n] \in DOMAIN char_indices
              /\ char_indices[indices_char[n]] = n

C8_Witness ==
    /\ VocabularyBuilt
    /\ Cardinality(PySet(text)) >= 2
    /\ Len(text) > Cardinality(PySet(text))

\* C9: the vocabulary holds each distinct symbol of the corpus exactly once,
\* the indices are exactly 0 .. |V| - 1 without gap or duplicate, and they
\* follow the order of the symbols, so they are a function of the corpus
\* alone.
C9_DenseSortedIndices ==
    VocabularyBuilt =>
        /\ PySet(chars) = PySet(text)
        /\ \A s \in PySet(text) : Count(chars, s) = 1
        /\ DOMAIN char_indices = PySet(text)
        /\ {char_indices[s] : s \in PySet(text)} = Range(Cardinality(PySet(text)))
        /\ \A s, t \in PySet(text) : s < t => char_indices[s] < char_indices[t]

C9_Witness ==
    /\ VocabularyBuilt
    /\ Cardinality(PySet(text)) >= 3
    /\ text[1] > text[2]

\* The state of the generation loop's state machine.
Phase ==
    CASE pc = "init" -> "INITIALIZING"
      [] pc \in {"for", "vectorize", "predict", "sample", "append"} -> "STEPPING"
      [] pc = "done" -> "DONE"
      [] pc = "raised" -> "FAILED"
      [] OTHER -> "IDLE"

\* The moves between states: a call starts in INITIALIZING, goes to
\* STEPPING, and from there to DONE (or out by an exception).
PhaseMoves ==
    {<<"IDLE", "INITIALIZING">>, <<"INITIALIZING", "STEPPING">>,
     <<"STEPPING", "DONE">>, <<"STEPPING", "FAILED">>,
     <<"DONE", "IDLE">>, <<"FAILED", "IDLE">>}

\* Step number i is in progress or i steps are complete: the model and the
\* sampler have each been invoked once per step.
OncePerStep ==
    /\ pc \in {"for", "vectorize", "predict"} =>
          (modelCalls = i /\ sampleCalls = i)
    /\ pc = "sample" => (modelCalls = i + 1 /\ sampleCalls = i)
    /\ pc = "append" => (modelCalls = i + 1 /\ sampleCalls = i + 1)
    /\ Phase = "STEPPING" => i <= length

\* A call that returns has run exactly `length` steps; with length = 0 it
\* returns the seed and invoked neither the model nor the sampler.
DoneAfterLengthSteps ==
    pc = "done" =>
        /\ i = length
        /\ modelCalls = length
        /\ sampleCalls = length
        /\ (length = 0 => result = seed_string)

\* C10: generate_text goes INITIALIZING -> STEPPING -> DONE, performs
\* exactly `length` steps, each invoking the model once and the sampler
\* once, and then terminates (by returning, or by an exception that leaves
\* the loop).
C10_StateMachine ==
    /\ [](OncePerStep /\ DoneAfterLengthSteps)
    /\ [][Phase' # Phase => <<Phase, Phase'>> \in PhaseMoves]_vars
    /\ (pc = "init" ~> pc \in {"done", "raised"})

C10_Witness ==
    /\ pc = "done"
    /\ length >= 2
    /\ modelCalls = length
    /\ sampleCalls = length

\* C11: a failure of the model call or of the sampler at some step leaves
\* generate_text at once: the exception is the outcome of the call, no string
\* is returned (not the partial sequence either), and nothing of the call
\* runs after it, neither a later step nor a second try of the failed one.
C11_FailurePropagates ==
    [][/\ error' # None => (pc' = "raised" /\ result' = NoString)
       /\ pc = "raised" =>
              /\ pc' = "idle"
              /\ result' = NoString
              /\ modelCalls' = 0
              /\ sampleCalls' = 0]_vars

C11_Witness ==
    /\ pc = "raised"
    /\ error = "ModelError"
    /\ i = 1
    /\ modelCalls = 2
    /\ generated # seed_string
    /\ result = NoString

\* The string holds a character char_indices has no key for.
HasUnknownChar(s) == \E k \in DOMAIN s : s[k] \notin DOMAIN char_indices

\* C12: a call with length >= 1 whose window (the seed, at step 1) holds a
\* character absent from char_indices gets no further than the
\* vectorization of step 1: it fails there with the unknown-symbol error
\* (KeyError) and the model has not been invoked.
C12_UnknownSymbolFails ==
    (pc \notin {"idle", "init"} /\ length >= 1 /\ HasUnknownChar(seed_string)) =>
        \/ pc \in {"for", "vectorize"} /\ i = 0 /\ modelCalls = 0
        \/ pc = "raised" /\ error = "KeyError" /\ modelCalls = 0

\* C13: two generate_text calls with the same seed string, model,
\* vocabulary, window size, length and temperature, each made right after
\* seeding the generator with the same seed, return the same string.
C13_SameSeedSameOutput ==
    (pc = "done" /\ run = 2) => result = first

C13_Witness ==
    /\ pc = "done"
    /\ run = 2
    /\ result = first
    /\ Len(sampled) >= 2
    /\ sampled[1] # sampled[2]

\* The symbol the vocabulary of the corpus indexes k: the one with k
\* smaller symbols.
SymbolAt(k) ==
    CHOOSE c \in PySet(text) : Cardinality({d \in PySet(text) : d < c}) = k

\* C15: with an empty seed and a generator whose draw is index k at every
\* step, generate_text returns the symbol at index k repeated `length`
\* times; with the vocabulary {a, b, c}, the model that always returns the
\* same vector with its largest entry last, and draws of index 2, a call
\* with length 3 returns "ccc".
C15_ConstantDrawRepeats ==
    (pc = "done" /\ seed_string = <<>>) =>
        \A k \in Range(voc_size) :
            (\A j \in DOMAIN sampled : sampled[j] = k) =>
                result = [j \in 1..length |-> SymbolAt(k)]

C15_Witness ==
    /\ pc = "done"
    /\ seed_string = <<>>
    /\ model = 0
    /\ temperature = TemperatureOne
    /\ length = 3
    /\ sampled = <<2, 2, 2>>
    /\ result = <<3, 3, 3>>

\* C14: the string a generate_text call returns does not depend on how its
\* sampling steps interleave with those of a call running in another
\* thread: it is the string the call returns when the other call draws
\* nothing between its start and its end.
C14_IndependentOfInterleaving ==
    \A w \in Threads :
        threads[w].pc = "done" =>
            threads[w].result =
                AloneFrom(threads[w].seed_string, threads[w].seed_string, 0,
                          threads[w].length, threads[w].temperature,
                          threads[w].start)

\* The items whose titles recommend returned.
ReturnedItems ==
    {k \in Items : \E j \in DOMAIN rec_result : rec_result[j][1] = Title(k)}

\* C16: no item returned by recommend(user_id, top_n) is an item this user
\* has rated in all_ratings.
C16_NoSeenItemReturned ==
    rec_pc = "returned" =>
        \A k \in ReturnedItems : <<user_id, k>> \notin all_ratings

\* C17: every item id in 1..max_item_id that the user has not rated is
\* among the candidates passed to model.predict, max_item_id included.
C17_AllUnseenItemsScored ==
    rec_pc = "predicted" =>
        \A k \in 1..max_item_id :
            <<user_id, k>> \notin all_ratings => k \in PySet(item_ids)

\* C18: onehot_encode(dim, i) has a single 1, at position i, and
\* np.dot(onehot_encode(vocab_size, i), embedding_matrix) is
\* embedding_matrix[i]: the product with the one-hot vector is the lookup
\* of row i.  (For a negative label, i counts from the end as numpy does.)
C18_OnehotDotIsLookup ==
    /\ [](onehot_i # NoArray =>
            \A c \in Range(VocabSize) :
                onehot_i[c] = (IF c = RowIndex(label, VocabSize) THEN 1 ELSE 0))
    /\ [][embedding_vector' # embedding_vector =>
            embedding_vector' = embedding_matrix[RowIndex(label, VocabSize)]]_vars

C18_Witness ==
    /\ label = 1
    /\ onehot_i # NoArray
    /\ embedding_vector = embedding_matrix[1]
    /\ embedding_vector # embedding_matrix[0]

\* The embedding a model returned for the label at position b of the batch.
ReturnedEmbedding(m, b) ==
    IF m = "model" THEN predicted[m][b][0] ELSE predicted[m][b]

\* C19: model and model2 share one embedding layer: after set_weights(w)
\* on either of them (model2 in the notebook), predict of each returns, for
\* every label, the row of w at that label, so both return the same
\* embedding.
C19_SharedEmbeddingWeights ==
    \A m \in Models :
        predicted[m] # NoArray =>
            \A b \in DOMAIN labels_to_encode :
                ReturnedEmbedding(m, b) = weights_set[labels_to_encode[b]]

C19_Witness ==
    /\ weights_set = OnesMatrix(VocabSize, EmbeddingSize)
    /\ predicted["model"] # NoArray
    /\ predicted["model2"] # NoArray
    /\ Cardinality(DOMAIN labels_to_encode) = 2
    /\ ReturnedEmbedding("model", 0) = ReturnedEmbedding("model2", 0)

\* A Probability Vector: non-negative entries that sum to 1.
IsProbabilityVector(p) ==
    /\ \A j \in DOMAIN p : p[j].k \in {"pos", "zero"}
    /\ NpSum(p).k = "pos"
    /\ NpSum(p).e <= 0
    /\ NpSum(p).n = Pow2(0 - NpSum(p).e)

\* The categories of the largest entry of the rescaled distribution q.
ArgMax(q) ==
    {j \in DOMAIN q : \A k \in DOMAIN q : Numerator(q[k]) <= Numerator(q[j])}

\* |a|
Abs(a) == IF a < 0 THEN 0 - a ELSE a

\* Numerator of the L1 distance of the rescaled distribution q to the
\* uniform one, over the denominator V * Denominator(q).
RECURSIVE UniformDistance(_, _)
UniformDistance(q, n) ==
    IF n = 0 THEN 0
    ELSE UniformDistance(q, n - 1)
         + Abs(Cardinality(DOMAIN q) * Numerator(q[n - 1]) - Denominator(q))

\* C20: for a non-uniform probability vector, the distribution sample_one
\* draws from at a lower temperature gives its arg-max category a strictly
\* larger probability than at a higher one, and at the higher temperature
\* the distribution is strictly closer to the uniform one.
C20_TemperatureMonotone ==
    (/\ pc = "returned"
     /\ temperature > 0
     /\ IsProbabilityVector(preds)
     /\ \E j, k \in DOMAIN preds : preds[j] # preds[k]) =>
        \A t2 \in {t \in SampleTemperatures : t > temperature} :
            LET low == RescaledPreds(preds, temperature)
                high == RescaledPreds(preds, t2)
                V == Cardinality(DOMAIN preds)
            IN  /\ \A j \in ArgMax(low) :
                       Numerator(low[j]) * Denominator(high)
                           > Numerator(high[j]) * Denominator(low)
                /\ UniformDistance(high, V) * Denominator(low)
                       < UniformDistance(low, V) * Denominator(high)

\* C21: at every step after the first whose window is non-empty and holds
\* at most max_length characters, the last row of the tensor passed to the
\* model is the one-hot encoding of the index sampled at the step before,
\* and that step's character is already appended when the step starts.
C21_LastRowIsPreviousSample ==
    (/\ pc \in {"vectorize", "predict", "sample"}
     /\ i >= 1
     /\ prefix # <<>>
     /\ Len(prefix) <= max_length) =>
        /\ Len(sampled) = i
        /\ generated[Len(generated)] = indices_char[sampled[i]]
        /\ pc \in {"predict", "sample"} =>
              OneHotRow(x, max_length - 1, sampled[i])

C21_Witness ==
    /\ pc = "sample"
    /\ i = 1
    /\ Len(seed_string) = max_length
    /\ sampled[1] # char_indices[seed_string[Len(seed_string)]]
    /\ x[max_length - 1][sampled[1]] = 1

\* C22: for every probability vector and every temperature above zero,
\* sample_one returns an index of the vector, and the category it names has
\* a strictly positive probability in the rescaled distribution.
C22_SampledInSupport ==
    (/\ SampleOneOver
     /\ temperature > 0
     /\ IsProbabilityVector(preds)) =>
        /\ pc = "returned"
        /\ next_index \in DOMAIN preds
        /\ Numerator(RescaledPreds(preds, temperature)[next_index]) > 0

\* C23: no step of a call of generate_text, completed or failed, changes
\* char_indices, indices_char, max_length or voc_size, and the string passed
\* as seed_string is the same from the call to its end.
C23_GlobalsAndSeedUntouched ==
    [][/\ char_indices' = char_indices
       /\ indices_char' = indices_char
       /\ max_length' = max_length
       /\ voc_size' = voc_size
       /\ (pc # "idle" /\ pc' # "idle") => seed_string' = seed_string]_vars

C23_Witness ==
    /\ pc = "done"
    /\ length = MaxGenLength
    /\ Len(result) = Len(seed_string) + length
    /\ modelCalls = length
    /\ max_length = WindowSize
    /\ max_length # Len(seed_string)
    /\ voc_size = Len(chars)

ScoredCandidates == PySet(NotSeen(PyRange(1, max_item_id), seen_movies))

\* C25: every (title, rating) pair recommend returns is consistent: the
\* title is that of one of the scored candidates, and the rating is the
\* model's predicted rating for that item.
C25_TitleAndRatingOfSameItem ==
    rec_pc = "returned" =>
        \A j \in DOMAIN rec_result :
            \E k \in ScoredCandidates :
                /\ rec_result[j][1] = Title(k)
                /\ rec_result[j][2] = rating_model[k]

\* The positions, in the array of candidates, of the candidates that are
\* not among the recommendations.
LeftOut == DOMAIN rating_preds \ PySet(rec_items)

C27_MostSimilarTriples ==
    ms_pc \in {"returned", "raised"} =>
        /\ ms_pc = "returned"
        /\ Len(ms_result) = Min(ms_top_n, Cardinality(DOMAIN item_embeddings))
        /\ \A j, k \in DOMAIN ms_result :
              j < k => ~SimLess(ms_result[j][3], ms_result[k][3])
        /\ \A j \in DOMAIN ms_result :
              /\ ms_result[j][1] \in DOMAIN titles
              /\ ms_result[j][2] = titles[ms_result[j][1]]
              /\ ms_result[j][3] = sims[ms_result[j][1]]
        /\ \A r \in DOMAIN item_embeddings \ PySet(idxs) :
              \A j \in DOMAIN ms_result : ~SimLess(ms_result[j][3], sims[r])

\* C28: make_sequences returns two lists of equal length; sequences[j]
\* holds exactly max_length characters of text from offset j * step on, and
\* next_chars[j] is the character that follows them in text; no index past
\* the end of text is read, and a text of at most max_length characters
\* gives two empty lists.
C28_SequencesAndNextChars ==
    /\ seq_pc # "raised"
    /\ seq_pc = "returned" =>
          /\ Len(sequences) = Len(next_chars)
          /\ \A j \in Range(Len(sequences)) :
                /\ j * step + max_length < Len(text)
                /\ Len(sequences[j + 1]) = max_length
                /\ \A k \in 1..max_length :
                      sequences[j + 1][k] = text[j * step + k]
                /\ next_chars[j + 1] = text[j * step + max_length + 1]
          /\ Len(text) <= max_length =>
                (sequences = <<>> /\ next_chars = <<>>)

C28_Witness ==
    /\ seq_pc = "returned"
    /\ step = 2
    /\ Len(sequences) = 2
    /\ sequences[1] # sequences[2]
    /\ next_chars[1] # next_chars[2]

====
